---- MODULE Spec2Model ----
(***************************************************************************)
(* Model of Projecteur's LinuxDesktop (src/src/linuxdesktop.cc): the       *)
(* environment probe run by the constructor, and the screen-capture        *)
(* dispatcher grabScreen with its four capture strategies.                 *)
(*                                                                         *)
(* Strings are sequences of one-character strings, so that QString's       *)
(* size(), ==, and contains(.., Qt::CaseInsensitive) are computed.         *)
(* Rectangles are records [x, y, w, h]; the null QRect has w = h = 0.      *)
(* A pixmap is a record [isNull, x, y, w, h, dpr]: w and h are its pixel   *)
(* dimensions and (x, y) is the desktop coordinate its pixel (0,0) shows.  *)
(***************************************************************************)
EXTENDS Integers, Sequences, FiniteSets, TLC

VARIABLES
  env,        \* the process environment (name -> value), as it is now
  pc,         \* "new" before the constructor has run, "ready" after
  m_type,     \* LinuxDesktop::m_type
  m_wayland,  \* LinuxDesktop::m_wayland
  hasQtDBus,  \* the build's HAS_Qt_DBus
  screens,    \* QGuiApplication::screens(); screens[1] is the primary screen
  gnomeFile,  \* what is at <tmp>/000_projecteur_zoom_screenshot.png
  last        \* the grabScreen call the latest step made, if it was a call:
              \* its target, the answers it got, its outcome

vars == <<env, pc, m_type, m_wayland, hasQtDBus, screens, gnomeFile, last>>

-----------------------------------------------------------------------------
(* Strings *)

Upper == <<"A","B","C","D","E","F","G","H","I","J","K","L","M",
           "N","O","P","Q","R","S","T","U","V","W","X","Y","Z">>
Lower == <<"a","b","c","d","e","f","g","h","i","j","k","l","m",
           "n","o","p","q","r","s","t","u","v","w","x","y","z">>

\* QChar case folding, on the characters the model uses.
FoldChar(c) ==
  IF \E i \in DOMAIN Upper : Upper[i] = c
  THEN Lower[CHOOSE i \in DOMAIN Upper : Upper[i] = c]
  ELSE c

\* Whether sub occurs in s at 0-based offset i, under case sensitivity cs.
MatchAt(s, sub, i, cs) ==
  \A k \in 1..Len(sub) :
    IF cs = "CaseSensitive"
    THEN s[i + k] = sub[k]
    ELSE FoldChar(s[i + k]) = FoldChar(sub[k])

RECURSIVE IndexOf(_, _, _, _)
\* QString::indexOf(sub, from, cs): the first offset >= from, or -1.
IndexOf(s, sub, from, cs) ==
  IF from + Len(sub) > Len(s) THEN -1
  ELSE IF MatchAt(s, sub, from, cs) THEN from
  ELSE IndexOf(s, sub, from + 1, cs)

\* QString::contains(sub, cs)
Contains(s, sub, cs) == IndexOf(s, sub, 0, cs) # -1

EmptyStr == << >>
STR_Gnome == <<"G","n","o","m","e">>
STR_wayland == <<"w","a","y","l","a","n","d">>
STR_kde_plasma == <<"k","d","e","-","p","l","a","s","m","a">>
STR_ok == <<"o","k">>

-----------------------------------------------------------------------------
(* The environment probe: LinuxDesktop::LinuxDesktop *)

EnvNames == {"KDE_FULL_SESSION", "GNOME_DESKTOP_SESSION_ID", "DESKTOP_SESSION",
             "XDG_CURRENT_DESKTOP", "WAYLAND_DISPLAY", "XDG_SESSION_TYPE"}

\* QProcessEnvironment::value(name): the value, or the empty string when the
\* variable is not set.
EnvValue(e, name) == IF name \in DOMAIN e THEN e[name] ELSE EmptyStr

\* The in-class initialiser of m_type (linuxdesktop.h).
TypeDefault == "Unknown"

ClassifyTypeKdeFirst(e) ==
  LET kdeFullSession == EnvValue(e, "KDE_FULL_SESSION")
      gnomeSessionId == EnvValue(e, "GNOME_DESKTOP_SESSION_ID")
      desktopSession == EnvValue(e, "DESKTOP_SESSION")
      xdgCurrentDesktop == EnvValue(e, "XDG_CURRENT_DESKTOP")
  IN IF Len(kdeFullSession) # 0 \/ desktopSession = STR_kde_plasma
     THEN "KDE"
     ELSE IF Len(gnomeSessionId) # 0
             \/ Contains(xdgCurrentDesktop, STR_Gnome, "CaseInsensitive")
     THEN "Gnome"
     ELSE TypeDefault

\* The "check for Kde and Gnome" block of the constructor.
ClassifyType(e) ==
  LET kdeFullSession == EnvValue(e, "KDE_FULL_SESSION")
      gnomeSessionId == EnvValue(e, "GNOME_DESKTOP_SESSION_ID")
      desktopSession == EnvValue(e, "DESKTOP_SESSION")
      xdgCurrentDesktop == EnvValue(e, "XDG_CURRENT_DESKTOP")
  IN IF Len(gnomeSessionId) # 0
        \/ Contains(xdgCurrentDesktop, STR_Gnome, "CaseInsensitive")
     THEN "Gnome"
     ELSE IF Len(kdeFullSession) # 0 \/ desktopSession = STR_kde_plasma
     THEN "KDE"
     ELSE TypeDefault

\* The "check for wayland session" block of the constructor.
ClassifyWayland(e) ==
  LET waylandDisplay == EnvValue(e, "WAYLAND_DISPLAY")
      xdgSessionType == EnvValue(e, "XDG_SESSION_TYPE")
  IN (xdgSessionType = STR_wayland)
     \/ Contains(waylandDisplay, STR_wayland, "CaseInsensitive")

-----------------------------------------------------------------------------
(* QRect and QPixmap *)

Rect(x, y, w, h) == [x |-> x, y |-> y, w |-> w, h |-> h]
NullRect == Rect(0, 0, 0, 0)

\* QRect::isNull and QRect::isEmpty
RectIsNull(r) == r.w = 0 /\ r.h = 0
RectIsEmpty(r) == r.w <= 0 \/ r.h <= 0

Min(a, b) == IF a < b THEN a ELSE b
Max(a, b) == IF a > b THEN a ELSE b

\* QRect::united (operator|): a null operand yields the other one.
United(a, b) ==
  IF RectIsNull(a) THEN b
  ELSE IF RectIsNull(b) THEN a
  ELSE LET l == Min(a.x, b.x)
           t == Min(a.y, b.y)
           r == Max(a.x + a.w, b.x + b.w)
           d == Max(a.y + a.h, b.y + b.h)
       IN Rect(l, t, r - l, d - t)

\* QRect::intersected (operator&): the null rectangle when an operand is
\* null or the two do not overlap.
Intersected(a, b) ==
  IF RectIsNull(a) \/ RectIsNull(b) THEN NullRect
  ELSE LET l == Max(a.x, b.x)
           t == Max(a.y, b.y)
           r == Min(a.x + a.w, b.x + b.w)
           d == Min(a.y + a.h, b.y + b.h)
       IN IF l >= r \/ t >= d THEN NullRect ELSE Rect(l, t, r - l, d - t)

NullPixmap == [isNull |-> TRUE, x |-> 0, y |-> 0, w |-> 0, h |-> 0, dpr |-> 1]
Pixmap(x, y, w, h) ==
  [isNull |-> FALSE, x |-> x, y |-> y, w |-> w, h |-> h, dpr |-> 1]

\* The pixmap showing exactly the desktop rectangle r.
PixmapOf(r) == Pixmap(r.x, r.y, r.w, r.h)

\* QPixmap::setDevicePixelRatio
SetDevicePixelRatio(pm, dpr) == [pm EXCEPT !.dpr = dpr]

\* QPixmap::copy(rect): a null pixmap copies to a null pixmap; the rectangle
\* is taken in the pixmap's own coordinates and clipped to its bounds, an
\* empty rectangle meaning the whole pixmap.  When nothing of the rectangle
\* lies inside the pixmap, the platform pixmap is handed the null rectangle,
\* for which it yields either the whole pixmap or nothing: wholeOnMiss.
Copy(pm, rect, wholeOnMiss) ==
  IF pm.isNull THEN NullPixmap
  ELSE LET bounds == Rect(0, 0, pm.w, pm.h)
           r == IF RectIsEmpty(rect) THEN bounds ELSE Intersected(bounds, rect)
       IN IF RectIsNull(r)
          THEN (IF wholeOnMiss THEN pm ELSE NullPixmap)
          ELSE [pm EXCEPT !.x = pm.x + r.x, !.y = pm.y + r.y,
                          !.w = r.w, !.h = r.h]

-----------------------------------------------------------------------------
(* Screens *)

\* QScreen: geometry(), devicePixelRatio(), and vd, the virtual desktop
\* (X screen) it belongs to; virtualSiblings() are the screens of one vd.
Screen(g, dpr, vd) == [geometry |-> g, dpr |-> dpr, vd |-> vd]

\* The target of grabScreen(nullptr)
NullScreen == [geometry |-> NullRect, dpr |-> 0, vd |-> 0]

\* QGuiApplication::primaryScreen()
PrimaryScreen(scr) == scr[1]

\* QScreen::virtualSiblings()
VirtualSiblings(scr, s) == {i \in DOMAIN scr : scr[i].vd = s.vd}

RECURSIVE UnitedAllFrom(_, _, _)
\* The loop "for (const auto s : screens()) g = g.united(s->geometry())",
\* from index i on with g so far.
UnitedAllFrom(scr, i, g) ==
  IF i > Len(scr) THEN g
  ELSE UnitedAllFrom(scr, i + 1, United(g, scr[i].geometry))

-----------------------------------------------------------------------------
(* What one grabScreen call is answered and what it does *)

\* A message to the logging sink: logError(desktop) and logWarning(desktop)
\* write at their level in category "desktop"; qDebug() writes at level
\* "debug" in Qt's default category.
LogEntry(level, category) == [level |-> level, category |-> category]

BUS_Gnome == "org.gnome.Shell.Screenshot.Screenshot"
BUS_Kde == "org.kde.KWin.ScreenShot2.CaptureActiveScreen"

\* The answers of the surroundings to the one primitive a call invokes:
\*   kind      the strategy that asks
\*   raw       the image the primitive or the remote service delivers
\*   reply     the bus reply: "true", "false", "error" (GNOME);
\*             "valid", "invalid" (KDE)
\*   written   what the GNOME service puts at the file path: "none" (nothing),
\*             "png" (a loadable image), "junk" (an unloadable file)
\*   openOk    whether QTemporaryFile::open succeeds
\*   status    the "status" entry of the KDE reply
\*   decodable whether the bytes in the KDE pipe load as a PNG
NoAnswer ==
  [kind |-> "none", raw |-> NullPixmap, reply |-> "none", written |-> "none",
   openOk |-> FALSE, status |-> EmptyStr, decodable |-> FALSE]

\* The outcome of a call:
\*   pm           the pixmap grabScreen returns
\*   strategyPm   the pixmap the invoked strategy returned, before the crop
\*   log, bus     the log messages emitted and the bus calls issued, in order
\*   strategies   the capture strategies invoked, in order
\*   file         what is at the GNOME file path when the call returns
\*   tempCreated  whether a temporary file was created during the call
\*   tempOpen     whether the QTemporaryFile is still there at the return
\*   captureRect  the rectangle asked of the virtual-desktop grabWindow
NoOut(file) ==
  [pm |-> NullPixmap, strategyPm |-> NullPixmap, log |-> << >>, bus |-> << >>,
   strategies |-> << >>, file |-> file, tempCreated |-> FALSE,
   tempOpen |-> FALSE, captureRect |-> NullRect]

-----------------------------------------------------------------------------
(* The capture strategies *)

\* grabScreenDBusGnome: the service may write the file whatever it replies;
\* QDBusReply<bool>::value() is false for an error reply.
grabScreenDBusGnome(a, file) ==
  LET atPath == IF a.written = "none" THEN file ELSE a.written
      called == [NoOut(atPath) EXCEPT !.bus = <<BUS_Gnome>>,
                                      !.strategies = <<"Gnome">>,
                                      !.tempCreated = (a.written # "none")]
  IN IF a.reply = "true"
     THEN LET pm == IF atPath = "png" THEN a.raw ELSE NullPixmap   \* QPixmap pm(filepath)
          IN [called EXCEPT !.strategyPm = pm, !.file = "absent"]  \* QFile::remove
     ELSE [called EXCEPT !.log = <<LogEntry("error", "desktop")>>]

grabScreenDBusKdeBodyNoStatus(a, file) ==
  IF ~a.openOk
  THEN [NoOut(file) EXCEPT !.strategies = <<"KDE">>,
                           !.log = <<LogEntry("debug", "default")>>]
  ELSE LET called == [NoOut(file) EXCEPT !.strategies = <<"KDE">>,
                                         !.bus = <<BUS_Kde>>,
                                         !.tempCreated = TRUE,
                                         !.tempOpen = TRUE]
       IN IF a.reply # "valid"
          THEN [called EXCEPT !.log = <<LogEntry("debug", "default")>>]
          ELSE [called EXCEPT
                  !.strategyPm = IF a.decodable THEN a.raw ELSE NullPixmap]

\* The body of grabScreenDBusKde up to each of its return statements, the
\* temporary file still open.
grabScreenDBusKdeBody(a, file) ==
  IF ~a.openOk
  THEN [NoOut(file) EXCEPT !.strategies = <<"KDE">>,
                           !.log = <<LogEntry("debug", "default")>>]
  ELSE LET called == [NoOut(file) EXCEPT !.strategies = <<"KDE">>,
                                         !.bus = <<BUS_Kde>>,
                                         !.tempCreated = TRUE,
                                         !.tempOpen = TRUE]
       IN IF a.reply # "valid"
          THEN [called EXCEPT !.log = <<LogEntry("debug", "default")>>]
          ELSE IF a.status # STR_ok
          THEN [called EXCEPT !.log = <<LogEntry("debug", "default"),
                                        LogEntry("debug", "default")>>]
          ELSE [called EXCEPT
                  !.strategyPm = IF a.decodable THEN a.raw ELSE NullPixmap]

TempFileLeaked(out) == out

\* ~QTemporaryFile at the end of grabScreenDBusKde's scope: the file is
\* closed and removed.
TempFileDestroyed(out) == [out EXCEPT !.tempOpen = FALSE]

grabScreenDBusKde(a, file) == TempFileDestroyed(grabScreenDBusKdeBody(a, file))

\* grabScreenVirtualDesktop
grabScreenVirtualDesktop(scr, screen, a, file, wholeOnMiss) ==
  LET g == UnitedAllFrom(scr, 1, NullRect)
      pm == a.raw      \* primaryScreen()->grabWindow(.., g.x, g.y, g.w, g.h)
      grabbed == [NoOut(file) EXCEPT !.strategies = <<"VirtualDesktop">>,
                                     !.captureRect = g,
                                     !.strategyPm = pm]
  IN IF ~pm.isNull
     THEN [grabbed EXCEPT !.pm = Copy(SetDevicePixelRatio(pm, screen.dpr),
                                      screen.geometry, wholeOnMiss)]
     ELSE [grabbed EXCEPT !.pm = pm]

\* screen->grabWindow(0), the last line of grabScreen
grabScreenNative(screen, a, file) ==
  [NoOut(file) EXCEPT !.strategies = <<"Native">>,
                      !.strategyPm = a.raw,
                      !.pm = a.raw]

-----------------------------------------------------------------------------
(* The dispatcher.  isWayland() and type() are the accessors of m_wayland   *)
(* and m_type.                                                              *)

grabScreenWaylandFallbackKde(screen, a, wholeOnMiss) ==
  IF hasQtDBus
  THEN LET r == CASE m_type = "Gnome" -> grabScreenDBusGnome(a, gnomeFile)
                  [] OTHER -> grabScreenDBusKde(a, gnomeFile)
           pm == r.strategyPm
       IN [r EXCEPT !.pm = IF pm.isNull THEN pm
                           ELSE Copy(pm, screen.geometry, wholeOnMiss)]
  ELSE [NoOut(gnomeFile) EXCEPT !.log = <<LogEntry("warning", "desktop")>>]

\* LinuxDesktop::grabScreenWayland
grabScreenWayland(screen, a, wholeOnMiss) ==
  IF hasQtDBus
  THEN LET r == CASE m_type = "Gnome" -> grabScreenDBusGnome(a, gnomeFile)
                  [] m_type = "KDE" -> grabScreenDBusKde(a, gnomeFile)
                  [] OTHER -> [NoOut(gnomeFile) EXCEPT
                                 !.log = <<LogEntry("warning", "desktop")>>]
           pm == r.strategyPm
       IN [r EXCEPT !.pm = IF pm.isNull THEN pm
                           ELSE Copy(pm, screen.geometry, wholeOnMiss)]
  ELSE [NoOut(gnomeFile) EXCEPT !.log = <<LogEntry("warning", "desktop")>>]

grabScreenNoNullCheck(screen, a, wholeOnMiss) ==
  IF m_wayland
  THEN grabScreenWayland(screen, a, wholeOnMiss)
  ELSE LET isVirtualDesktop ==
             Cardinality(VirtualSiblings(screens, PrimaryScreen(screens))) > 1
       IN IF isVirtualDesktop
          THEN grabScreenVirtualDesktop(screens, screen, a, gnomeFile, wholeOnMiss)
          ELSE grabScreenNative(screen, a, gnomeFile)

grabScreenCountsScreens(screen, a, wholeOnMiss) ==
  IF screen = NullScreen
  THEN NoOut(gnomeFile)
  ELSE IF m_wayland
  THEN grabScreenWayland(screen, a, wholeOnMiss)
  ELSE IF Len(screens) > 1
  THEN grabScreenVirtualDesktop(screens, screen, a, gnomeFile, wholeOnMiss)
  ELSE grabScreenNative(screen, a, gnomeFile)

\* LinuxDesktop::grabScreen (Qt >= 5.11)
grabScreen(screen, a, wholeOnMiss) ==
  IF screen = NullScreen
  THEN NoOut(gnomeFile)
  ELSE IF m_wayland
  THEN grabScreenWayland(screen, a, wholeOnMiss)
  ELSE LET isVirtualDesktop ==
             Cardinality(VirtualSiblings(screens, PrimaryScreen(screens))) > 1
       IN IF isVirtualDesktop
          THEN grabScreenVirtualDesktop(screens, screen, a, gnomeFile, wholeOnMiss)
          ELSE grabScreenNative(screen, a, gnomeFile)

MembersReprobed(type, wayland, e) ==
  [type |-> ClassifyType(e), wayland |-> ClassifyWayland(e)]

\* grabScreen and grabScreenWayland are const member functions: the members
\* after a call are the members before it.
MembersAfterGrab(type, wayland, e) == [type |-> type, wayland |-> wayland]

-----------------------------------------------------------------------------
(* The surroundings: environments, screen arrangements, answers *)

MaxScreens == 2

Unset == <<"<unset>">>
STR_true == <<"t","r","u","e">>
STR_set == <<"s","e","t">>
STR_x11 == <<"x","1","1">>
STR_Wayland == <<"W","a","y","l","a","n","d">>
STR_wayland_0 == <<"w","a","y","l","a","n","d","-","0">>
STR_WAYLAND_1 == <<"W","A","Y","L","A","N","D","-","1">>
STR_way == <<"w","a","y">>
STR_KDE_Plasma == <<"K","D","E","-","P","l","a","s","m","a">>
STR_plasma == <<"p","l","a","s","m","a">>
STR_GNOME == <<"G","N","O","M","E">>
STR_ubuntu_GNOME == <<"u","b","u","n","t","u",":","G","N","O","M","E">>
STR_gnom == <<"g","n","o","m">>
STR_KDE == <<"K","D","E">>
STR_error == <<"e","r","r","o","r">>
STR_OK == <<"O","K">>

\* The environment in which the six variables have the given values, Unset
\* standing for a variable that is not set.
MakeEnv(kde, gnome, session, current, display, sessionType) ==
  LET f == [n \in EnvNames |->
              CASE n = "KDE_FULL_SESSION" -> kde
                [] n = "GNOME_DESKTOP_SESSION_ID" -> gnome
                [] n = "DESKTOP_SESSION" -> session
                [] n = "XDG_CURRENT_DESKTOP" -> current
                [] n = "WAYLAND_DISPLAY" -> display
                [] n = "XDG_SESSION_TYPE" -> sessionType]
  IN [n \in {m \in EnvNames : f[m] # Unset} |-> f[n]]

\* The environments the probe is checked on.
ProbeEnvs ==
  {MakeEnv(kde, gnome, session, current, display, sessionType) :
     kde \in {Unset, EmptyStr, STR_true},
     gnome \in {Unset, EmptyStr, STR_set},
     session \in {Unset, STR_kde_plasma, STR_KDE_Plasma, STR_plasma},
     current \in {Unset, STR_GNOME, STR_ubuntu_GNOME, STR_gnom, STR_KDE},
     display \in {Unset, STR_wayland_0, STR_WAYLAND_1, STR_way},
     sessionType \in {Unset, STR_wayland, STR_Wayland, STR_x11}}

\* The environments the dispatcher is checked in.
SessionEnvs ==
  {MakeEnv(kde, gnome, Unset, Unset, Unset, sessionType) :
     kde \in {Unset, STR_true},
     gnome \in {Unset, STR_set},
     sessionType \in {STR_x11, STR_wayland}}

Offsets == {0, 100}

\* The i-th screen of a row: odd ones are 1920x1080 at scale 1, even ones
\* 1280x1024 at scale 2.
ShapeW(i) == IF i % 2 = 1 THEN 1920 ELSE 1280
ShapeH(i) == IF i % 2 = 1 THEN 1080 ELSE 1024
ShapeDpr(i) == IF i % 2 = 1 THEN 1 ELSE 2

RECURSIVE RowX(_, _)
RowX(x0, i) == IF i = 1 THEN x0 ELSE RowX(x0, i - 1) + ShapeW(i - 1)

\* n screens side by side from (x0, 0) on, enumerated left to right or right
\* to left, all on one virtual desktop or each on its own.
Arrange(n, x0, reversed, separate) ==
  [k \in 1..n |->
     LET i == IF reversed THEN n + 1 - k ELSE k
     IN Screen(Rect(RowX(x0, i), 0, ShapeW(i), ShapeH(i)), ShapeDpr(i),
               IF separate THEN i ELSE 1)]

Layouts ==
  {Arrange(n, x0, reversed, separate) :
     n \in 1..MaxScreens, x0 \in Offsets,
     reversed \in BOOLEAN, separate \in BOOLEAN}

ScreensOf(scr) == {scr[i] : i \in DOMAIN scr}

\* The images a capture primitive or a remote service may deliver when the
\* target is t: the target's rectangle, the union of all screens, the whole
\* desktop from its origin, and an image twice or half the target's size.
RawImages(scr, t) ==
  LET g == UnitedAllFrom(scr, 1, NullRect)
      r == t.geometry
  IN {PixmapOf(r), PixmapOf(g), Pixmap(0, 0, g.x + g.w, g.y + g.h),
      Pixmap(r.x, r.y, 2 * r.w, 2 * r.h),
      Pixmap(r.x, r.y, r.w \div 2, r.h \div 2)}

X11Answers(scr, t) ==
  {[NoAnswer EXCEPT !.kind = k, !.raw = r] :
     k \in {"Native", "VirtualDesktop"},
     r \in RawImages(scr, t) \cup {NullPixmap}}

\* The image matters only when the reply is true and a loadable file is found.
GnomeAnswers(scr, t, file) ==
  {[NoAnswer EXCEPT !.kind = "Gnome", !.reply = rp, !.written = wr] :
     rp \in {"true", "false", "error"}, wr \in {"none", "png", "junk"}}
  \cup
  {[NoAnswer EXCEPT !.kind = "Gnome", !.reply = "true", !.written = wr, !.raw = r] :
     wr \in {w \in {"none", "png"} : w = "png" \/ file = "png"},
     r \in RawImages(scr, t)}

KdeStatuses == {STR_ok, STR_OK, STR_error, EmptyStr}

KdeAnswers(scr, t) ==
  {[NoAnswer EXCEPT !.kind = "KDE"]}
  \cup {[NoAnswer EXCEPT !.kind = "KDE", !.openOk = TRUE, !.reply = "invalid"]}
  \cup {[NoAnswer EXCEPT !.kind = "KDE", !.openOk = TRUE, !.reply = "valid",
                         !.status = st] : st \in KdeStatuses}
  \cup {[NoAnswer EXCEPT !.kind = "KDE", !.openOk = TRUE, !.reply = "valid",
                         !.status = st, !.decodable = TRUE, !.raw = r] :
          st \in KdeStatuses, r \in RawImages(scr, t)}

Answers(scr, t, file) ==
  IF t = NullScreen THEN {NoAnswer}
  ELSE {NoAnswer} \cup X11Answers(scr, t) \cup GnomeAnswers(scr, t, file)
       \cup KdeAnswers(scr, t)

\* The strategy whose primitive an outcome consulted.
Asked(out) == IF out.strategies = << >> THEN "none" ELSE out.strategies[1]

\* The answers a call grabScreen(t) can get: those of the primitive it asks.
AnswersTo(t) ==
  LET kind == Asked(grabScreen(t, NoAnswer, FALSE))
  IN {a \in Answers(screens, t, gnomeFile) : a.kind = kind}

-----------------------------------------------------------------------------
(* The state machine *)

NoCall == [called |-> FALSE, target |-> NullScreen, answer |-> NoAnswer,
           fileBefore |-> "absent", out |-> NoOut("absent")]

\* After construction, in some session, on some build, with some screens.
Init ==
  /\ pc = "ready"
  /\ env \in SessionEnvs
  /\ m_type = ClassifyType(env)
  /\ m_wayland = ClassifyWayland(env)
  /\ hasQtDBus \in BOOLEAN
  /\ screens \in Layouts
  /\ gnomeFile = "absent"
  /\ last = NoCall

\* Before construction, in any of the probe's environments.
InitProbe ==
  /\ pc = "new"
  /\ env \in ProbeEnvs
  /\ m_type = TypeDefault
  /\ m_wayland = FALSE
  /\ hasQtDBus = TRUE
  /\ screens = Arrange(1, 0, FALSE, FALSE)
  /\ gnomeFile = "absent"
  /\ last = NoCall

\* LinuxDesktop::LinuxDesktop
Construct ==
  /\ pc = "new"
  /\ pc' = "ready"
  /\ m_type' = ClassifyType(env)
  /\ m_wayland' = ClassifyWayland(env)
  /\ UNCHANGED <<env, hasQtDBus, screens, gnomeFile, last>>

\* One call grabScreen(screen), screen being null or a connected screen,
\* answered by the primitive it invokes.
GrabScreen ==
  /\ pc = "ready"
  /\ \E screen \in ScreensOf(screens) \cup {NullScreen} :
     \E a \in AnswersTo(screen) :
     \E out \in {grabScreen(screen, a, wholeOnMiss) : wholeOnMiss \in BOOLEAN} :
       LET members == MembersAfterGrab(m_type, m_wayland, env)
       IN /\ last' = [called |-> TRUE, target |-> screen, answer |-> a,
                      fileBefore |-> gnomeFile, out |-> out]
          /\ gnomeFile' = out.file
          /\ m_type' = members.type
          /\ m_wayland' = members.wayland
  /\ UNCHANGED <<env, pc, hasQtDBus, screens>>

\* A screen is connected, removed or moved between two calls.
ScreensChanged ==
  /\ pc = "ready"
  /\ screens' \in Layouts \ {screens}
  /\ last' = NoCall
  /\ UNCHANGED <<env, pc, m_type, m_wayland, hasQtDBus, gnomeFile>>

\* The process environment changes after construction.
Setenv ==
  /\ pc = "ready"
  /\ env' \in SessionEnvs \ {env}
  /\ last' = NoCall
  /\ UNCHANGED <<pc, m_type, m_wayland, hasQtDBus, screens, gnomeFile>>

Next == GrabScreen \/ ScreensChanged \/ Setenv

Spec == Init /\ [][Next]_vars

NextProbe == Construct

SpecProbe == InitProbe /\ [][NextProbe]_vars

-----------------------------------------------------------------------------
(* Properties *)

IsWarning(e) == e.level = "warning"
IsWarningOrError(e) == e.level \in {"warning", "error"}

\* A call with a connected screen as its target was made by the latest step.
CalledOnScreen == last.called /\ last.target # NullScreen

\* C1: a call with a null target returns the empty image and has no effect:
\* no bus call, no log message, no temporary file, no capture strategy run,
\* and the GNOME file path as it was, whatever the classification.
C1_NullTargetNoEffect ==
  (last.called /\ last.target = NullScreen) =>
    /\ last.out.pm.isNull
    /\ last.out.bus = << >>
    /\ last.out.log = << >>
    /\ last.out.strategies = << >>
    /\ ~last.out.tempCreated
    /\ ~last.out.tempOpen
    /\ gnomeFile = last.fileBefore

\* A null-target call on a Wayland KDE session of a build with Qt DBus, where
\* a screen target would have issued a bus call.
C1_Witness ==
  /\ last.called /\ last.target = NullScreen
  /\ m_wayland /\ m_type = "KDE" /\ hasQtDBus

\* C2: on a Wayland session of Unknown desktop kind every call with a screen
\* target returns the empty image, logs exactly one warning, and issues no
\* bus call (no strategy runs).
C2_WaylandUnknown ==
  (CalledOnScreen /\ m_wayland /\ m_type = "Unknown") =>
    /\ last.out.pm.isNull
    /\ Len(SelectSeq(last.out.log, IsWarning)) = 1
    /\ last.out.bus = << >>
    /\ last.out.strategies = << >>

C2_Witness ==
  /\ CalledOnScreen /\ m_wayland /\ m_type = "Unknown" /\ hasQtDBus
  /\ Len(screens) > 1

\* The number of screens on the primary screen's virtual desktop.
PrimarySiblingCount ==
  Cardinality({i \in 1..Len(screens) : screens[i].vd = screens[1].vd})

\* C3: a call with a screen target invokes at most one strategy: on a Wayland
\* session only the bus strategy of the desktop kind (none for Unknown or
\* without Qt DBus), never the native or virtual-desktop one; otherwise never
\* a bus strategy, the virtual-desktop one when the primary screen has more
\* than one sibling and the native one when it has not.
C3_OneStrategyFirstMatch ==
  CalledOnScreen =>
    /\ Len(last.out.strategies) <= 1
    /\ m_wayland =>
         /\ \A i \in DOMAIN last.out.strategies :
              /\ last.out.strategies[i] \in {"Gnome", "KDE"}
              /\ last.out.strategies[i] = m_type
    /\ ~m_wayland =>
         /\ last.out.bus = << >>
         /\ last.out.strategies =
              IF PrimarySiblingCount > 1 THEN <<"VirtualDesktop">>
              ELSE <<"Native">>

\* A GNOME desktop on a session that is not Wayland, with two screens that
\* are not siblings: the native grab runs.
C3_Witness ==
  /\ CalledOnScreen /\ ~m_wayland /\ m_type = "Gnome"
  /\ Len(screens) > 1 /\ PrimarySiblingCount = 1
  /\ last.out.strategies = <<"Native">>

\* The value of a variable in a snapshot, absent counting as empty.
Snapshot(e, name) == IF name \in DOMAIN e THEN e[name] ELSE << >>

\* Whether text occurs in s, letters compared without case (text lower-case).
OccursFolded(s, text) ==
  \E i \in 1..Len(s) :
    /\ i + Len(text) - 1 <= Len(s)
    /\ [k \in 1..Len(text) |-> FoldChar(s[i + k - 1])] = text

GnomeSignal(e) ==
  \/ Snapshot(e, "GNOME_DESKTOP_SESSION_ID") # << >>
  \/ OccursFolded(Snapshot(e, "XDG_CURRENT_DESKTOP"), <<"g","n","o","m","e">>)

KdeSignal(e) ==
  \/ Snapshot(e, "KDE_FULL_SESSION") # << >>
  \/ Snapshot(e, "DESKTOP_SESSION") = <<"k","d","e","-","p","l","a","s","m","a">>

\* C4: the classification is GNOME whenever a GNOME signal is present, also
\* next to a KDE signal; KDE only when a KDE signal is present and no GNOME
\* signal is; Unknown exactly when neither is present.
C4_PriorityLaw ==
  pc = "ready" =>
    /\ GnomeSignal(env) => m_type = "Gnome"
    /\ m_type = "KDE" => (KdeSignal(env) /\ ~GnomeSignal(env))
    /\ m_type = "Unknown" <=> (~GnomeSignal(env) /\ ~KdeSignal(env))

\* Constructed where XDG_CURRENT_DESKTOP carries the GNOME signal in another
\* case and inside a longer value, next to both KDE signals.
C4_Witness ==
  /\ pc = "ready"
  /\ "GNOME_DESKTOP_SESSION_ID" \notin DOMAIN env
  /\ Snapshot(env, "XDG_CURRENT_DESKTOP") = STR_ubuntu_GNOME
  /\ Snapshot(env, "KDE_FULL_SESSION") = STR_true
  /\ Snapshot(env, "DESKTOP_SESSION") = STR_kde_plasma
  /\ m_type = "Gnome"

\* C5: after the GNOME strategy has returned, on every exit path, nothing is
\* left at the fixed temporary path.
C5_GnomeFileRemoved ==
  (CalledOnScreen /\ Asked(last.out) = "Gnome") => gnomeFile = "absent"

\* C6: the KDE strategy returns a non-empty image only when the temporary
\* file opened, the reply is valid, its status is "ok" and the bytes decode;
\* it returns empty otherwise; and the temporary file is gone at the return.
C6_KdeOutcome ==
  (CalledOnScreen /\ Asked(last.out) = "KDE") =>
    /\ ~last.out.strategyPm.isNull <=>
         /\ last.answer.openOk
         /\ last.answer.reply = "valid"
         /\ last.answer.status = <<"o","k">>
         /\ last.answer.decodable
    /\ ~last.out.tempOpen

\* Decodable bytes in the pipe under a status that differs from "ok" only in
\* case: the strategy returns empty after having created the temporary file.
C6_Witness ==
  /\ CalledOnScreen /\ Asked(last.out) = "KDE"
  /\ last.answer.reply = "valid" /\ last.answer.status = STR_OK
  /\ last.answer.decodable /\ ~last.answer.raw.isNull
  /\ last.out.tempCreated
  /\ last.out.strategyPm.isNull

\* C7: a non-empty image returned by grabScreen has exactly the size of the
\* target's geometry, whatever the strategy and the size of the raw image.
C7_ResultHasTargetSize ==
  (CalledOnScreen /\ ~last.out.pm.isNull) =>
    /\ last.out.pm.w = last.target.geometry.w
    /\ last.out.pm.h = last.target.geometry.h

\* A bus capture that failed: the GNOME reply false or an error, the KDE
\* reply invalid or of a status other than "ok".
BusCaptureFailed ==
  \/ /\ Asked(last.out) = "Gnome"
     /\ last.answer.reply \in {"false", "error"}
  \/ /\ Asked(last.out) = "KDE"
     /\ last.answer.openOk
     /\ (last.answer.reply = "invalid" \/ last.answer.status # <<"o","k">>)

\* C8: every failed bus capture is reported as a warning or an error to the
\* logging sink and grabScreen returns the empty image.
C8_BusFailureReported ==
  (CalledOnScreen /\ BusCaptureFailed) =>
    /\ \E i \in DOMAIN last.out.log : IsWarningOrError(last.out.log[i])
    /\ last.out.pm.isNull

\* The bounding rectangle of a set of screens, by extremes.
BoundingRect(S) ==
  LET l == CHOOSE v \in {s.geometry.x : s \in S} :
             \A s \in S : v <= s.geometry.x
      t == CHOOSE v \in {s.geometry.y : s \in S} :
             \A s \in S : v <= s.geometry.y
      r == CHOOSE v \in {s.geometry.x + s.geometry.w : s \in S} :
             \A s \in S : v >= s.geometry.x + s.geometry.w
      d == CHOOSE v \in {s.geometry.y + s.geometry.h : s \in S} :
             \A s \in S : v >= s.geometry.y + s.geometry.h
  IN [x |-> l, y |-> t, w |-> r - l, h |-> d - t]

\* Whether pm shows exactly the desktop rectangle r.
Shows(pm, r) ==
  ~pm.isNull /\ pm.x = r.x /\ pm.y = r.y /\ pm.w = r.w /\ pm.h = r.h

\* C9: the virtual-desktop strategy captures the bounding rectangle of all
\* connected screens, in whatever order they are enumerated, and when the
\* primitive delivers that capture the image returned shows exactly the
\* target's own rectangle, for every arrangement of the screens.
C9_VirtualDesktopCrop ==
  (CalledOnScreen /\ Asked(last.out) = "VirtualDesktop") =>
    /\ last.out.captureRect = BoundingRect(ScreensOf(screens))
    /\ Shows(last.answer.raw, last.out.captureRect) =>
         Shows(last.out.pm, last.target.geometry)

\* C10: no step a constructed object takes changes the classification or
\* the session flag, whatever has become of the environment.
C10_DecidedOnce ==
  [][pc = "ready" => (m_type' = m_type /\ m_wayland' = m_wayland)]_vars

\* A capture made on a KDE Wayland session after the environment has come to
\* say GNOME on X11; it issued the KDE bus call and returned an image.
C10_Witness ==
  /\ CalledOnScreen
  /\ m_type = "KDE" /\ m_wayland
  /\ ClassifyType(env) = "Gnome" /\ ~ClassifyWayland(env)
  /\ last.out.bus = <<BUS_Kde>>
  /\ ~last.out.pm.isNull

====
